---- MODULE Spec2Model ----
(***************************************************************************)
(* kabuki: the graph compiler of kabuki/hierarchical.py                    *)
(* (Hierarchical.create_nodes and the methods it calls) and the slice      *)
(* sampler of kabuki/slice.py (SliceSampling.step).                        *)
(*                                                                         *)
(* A model object is described by its constructor arguments (data, params, *)
(* depends_on, is_group_model, include), the mutable node dictionaries of  *)
(* its parameter templates (HNode), the objects created so far (heap) and  *)
(* a history of the node-creation calls (log).                             *)
(***************************************************************************)
EXTENDS Integers, Sequences, FiniteSets, TLC

VARIABLES
    data,            \* self.data: sequence of rows [subj_idx, c1, c2]
    params,          \* self.params: sequence of HNode templates (constructor fields)
    depends_on,      \* self.depends_on: parameter name -> list of column names
    dep_keys,        \* iteration order of the dict self.depends_on (keys())
    is_group_model,  \* self.is_group_model
    include,         \* self.include
    model,           \* the mutable state of the model object, a record (see ModelInit)
    ctor_args,       \* constructor arguments that are not kept on the object (see NoArgs)
    sampler          \* a SliceSampling object and the locals of its step() (see SliceSampling)

vars == <<data, params, depends_on, dep_keys, is_group_model, include, model, ctor_args, sampler>>

\* no step method is attached to a node while the graph is compiled
NoSampler == [status |-> "none"]

\* the fields of model
tmpl == model.tmpl          \* per template: group_nodes, var_nodes, subj_nodes, subj_knode.args, working fields
heap == model.heap          \* node objects created so far, in creation order (a node is its index)
log == model.log            \* history: the create_pymc_node / get_bottom_node calls made so far
data_dep == model.data_dep  \* the list returned by the last _get_data_depend call
registry == model.registry  \* self.nodes, self.group_nodes, self.var_nodes, self.subj_nodes
status == model.status      \* "new", "done" (create_nodes returned), "error" (it raised)
error == model.error        \* the exception raised, "" if none
ncalls == model.ncalls      \* number of create_nodes calls made

(***************************************************************************)
(* Bounds of the model.                                                    *)
(***************************************************************************)
MaxRows == 4     \* rows of the data table
MaxCalls == 2    \* create_nodes calls on one model object
MaxPos == 3      \* the node's log-density is finite on the positions 0..MaxPos
MaxLevel == 1    \* the finite log-densities are 0..MaxLevel
MaxWidth == 2    \* self.width is in 1..MaxWidth
MaxIter == 2     \* self.maxiter is in 1..MaxIter
MaxSteps == 2    \* step() calls on one sampler

Subjects == {1, 2}           \* values of column subj_idx
Levels == {1, 2}             \* values of the condition columns c1 and c2

(***************************************************************************)
(* Python values.                                                          *)
(***************************************************************************)
None == << >>                \* None in an optional field; a set value v is <<v>>
Some(v) == <<v>>
NoNode == 0                  \* None where a node is expected
EmptyDict == [k \in {} |-> 0]
DictPut(d, k, v) == [x \in (DOMAIN d) \cup {k} |-> IF x = k THEN v ELSE d[x]]

\* collections.OrderedDict: keys in insertion order; assigning an existing key keeps its place
OD_empty == [keys |-> << >>, vals |-> EmptyDict]
OD_has(od, k) == k \in DOMAIN od.vals
OD_put(od, k, v) == [keys |-> IF OD_has(od, k) THEN od.keys ELSE Append(od.keys, k),
                     vals |-> DictPut(od.vals, k, v)]
OD_len(od) == Len(od.keys)
OD_first(od) == od.vals[od.keys[1]]     \* od.values()[0]

Range(s) == {s[k] : k \in DOMAIN s}

(***************************************************************************)
(* numpy: column selection, unique, str() of a record.                     *)
(***************************************************************************)
\* data[cols][r]: the record of row r restricted to the listed columns
Project(row, cols) == [k \in 1..Len(cols) |-> row[cols[k]]]

\* order of numpy records (lexicographic, field by field)
RecLess(s, t) == \E k \in 1..Len(s) : /\ s[k] < t[k]
                                       /\ \A j \in 1..(k - 1) : s[j] = t[j]

RECURSIVE SortedSeq(_)
SortedSeq(S) ==
    IF S = {} THEN << >>
    ELSE LET m == CHOOSE x \in S : \A y \in S : x = y \/ RecLess(x, y)
         IN <<m>> \o SortedSeq(S \ {m})

\* np.unique(data[cols]) over the rows of a slice: sorted unique records
np_unique(rows, cols) == SortedSeq({Project(data[r], cols) : r \in rows})

RECURSIVE JoinInts(_)
JoinInts(t) ==
    IF Len(t) = 1 THEN ToString(t[1])
    ELSE ToString(t[1]) \o ", " \o JoinInts(Tail(t))

\* str(record): "(1,)" for one field, "(1, 2)" for several
StrRecord(t) ==
    IF Len(t) = 1 THEN "(" \o ToString(t[1]) \o ",)"
    ELSE "(" \o JoinInts(t) \o ")"

RECURSIVE JoinRecords(_)
JoinRecords(l) ==
    IF Len(l) = 1 THEN StrRecord(l[1])
    ELSE StrRecord(l[1]) \o ", " \o JoinRecords(Tail(l))

\* str(list of records): "[(1,), (2,)]"
StrList(l) == "[" \o JoinRecords(l) \o "]"

AllRows == 1..Len(data)

\* self._subjs = np.unique(data['subj_idx']) and self._num_subjs
_subjs ==
    LET u == SortedSeq({<<data[r].subj_idx>> : r \in AllRows})
    IN [k \in 1..Len(u) |-> u[k][1]]
_num_subjs == Len(_subjs)

\* data[data['subj_idx'] == subj]
SubjRows(rows, subj) == {r \in rows : data[r].subj_idx = subj}

\* np.empty(n, dtype=object): n unset slots
np_empty(n) == [k \in 1..n |-> NoNode]

(***************************************************************************)
(* Knode and HNode.                                                        *)
(*                                                                         *)
(* A knode is None or an object.  Knode.__init__ gives it the attributes   *)
(* stoch, step_method and args; create_pymc_node reads the attribute       *)
(* parents, which Knode.__init__ does not set: has_parents tells whether   *)
(* the object supplied by the caller carries one.                          *)
(***************************************************************************)
NoKnode == [kind |-> "None", has_parents |-> FALSE, parents |-> EmptyDict]
Knode == [kind |-> "Knode", has_parents |-> FALSE, parents |-> EmptyDict]
KnodeWithParents == [kind |-> "Knode", has_parents |-> TRUE, parents |-> EmptyDict]

HNode(name, is_bottom_node, knodes, labels, transform, share_var) ==
    [name |-> name, is_bottom_node |-> is_bottom_node,
     optional |-> FALSE, default |-> None,
     group_knode |-> knodes[1], var_knode |-> knodes[2], subj_knode |-> knodes[3],
     group_label |-> labels[1], var_label |-> labels[2],
     transform |-> transform, share_var |-> share_var]

\* HNode(..., default=default, optional=True)
Optional(h, default) == [h EXCEPT !.optional = TRUE, !.default = Some(default)]

\* the attributes _init_params derives from the knodes
has_group_nodes(param) == param.group_knode.kind # "None"
has_var_nodes(param) == param.var_knode.kind # "None"
has_subj_nodes(param) == param.is_bottom_node \/ param.subj_knode.kind # "None"

\* the mutable part of a template after HNode.__init__
HNodeInit ==
    [group_nodes |-> OD_empty, var_nodes |-> OD_empty, subj_nodes |-> OD_empty,
     args |-> EmptyDict,
     group |-> None, tag |-> None, data |-> None, idx |-> None, var |-> None]

\* a variant that leaves the working fields as they are
reset_Nothing(h) == h

\* HNode.reset
reset(h) == [h EXCEPT !.group = None, !.tag = None, !.data = None, !.idx = None]

\* HNode.get_full_name
get_full_name(name, h) ==
    IF h.idx # None
    THEN IF h.tag # None THEN name \o h.tag[1] \o ToString(h.idx[1])
         ELSE name \o ToString(h.idx[1])
    ELSE IF h.tag # None THEN name \o h.tag[1]
         ELSE name

\* a variant that keeps every template, optional or not
params_include_All == params

\* self.params_include of create_nodes: the active templates, in list order
params_include == SelectSeq(params, LAMBDA p : p.name \in include \/ ~p.optional)
ActiveNames == {p.name : p \in Range(params_include)}
ParamByName(name) == CHOOSE p \in Range(params_include) : p.name = name

\* param.transform(group, var); "precision" is the docstring's lambda mu,var:(mu, var**-2)
Ref(node, f) == [node |-> node, f |-> f]
transform(kind, group, var) ==
    IF kind = "None" THEN <<Ref(group, "id"), Ref(var, "id")>>
    ELSE <<Ref(group, "id"), Ref(var, "pow-2")>>

(***************************************************************************)
(* The partitioner.  A data slice is the set of its row numbers.  The      *)
(* result is [err, out]: the exception raised ("" if none) and the list of *)
(* tuples (data, params, dep_name, dep_name_str).                          *)
(***************************************************************************)
Raised(e) == [err |-> e, out |-> << >>]
Returned(l) == [err |-> "", out |-> l]

\* a variant that selects from the whole table (self.data) instead of the current slice
SelectRows_WholeTable(rows, col_name, depend_element) ==
    {r \in AllRows : Project(data[r], col_name) = depend_element}

\* the rows of the current slice that carry the unique element (line 378)
SelectRows(rows, col_name, depend_element) ==
    {r \in rows : Project(data[r], col_name) = depend_element}

\* a variant that takes the unique elements of the whole table instead of the current slice
DependElements_WholeTable(rows, col_name) == np_unique(AllRows, col_name)

\* the unique elements looped over (line 372)
DependElements(rows, col_name) == np_unique(rows, col_name)

\* the tag of an emitted tuple (lines 407-413)
DepNameStr(dep_name) ==
    IF Len(dep_name) # 0
    THEN IF Len(dep_name) = 1 THEN StrRecord(dep_name[1]) ELSE StrList(dep_name)
    ELSE ""

RECURSIVE _get_data_depend_rec(_, _, _, _, _)
RECURSIVE _get_data_depend_loop(_, _, _, _, _, _, _)
RECURSIVE _get_data_depend_iter(_, _, _, _, _, _, _)

\* the dictionary in which lines 388-391 look the tag up
DependNodes(t, param_name) ==
    IF is_group_model /\ has_subj_nodes(ParamByName(param_name))
    THEN t[param_name].subj_nodes
    ELSE t[param_name].group_nodes

\* a variant that keeps the element appended for the branch just left
Pop_Never(dep_name) == dep_name

\* dep_name.pop() (line 401)
Pop(dep_name) == SubSeq(dep_name, 1, Len(dep_name) - 1)

\* data_params += data_param (line 398), unless one of the two raised
Concat(sub, more) ==
    IF sub.err # "" THEN sub
    ELSE IF more.err # "" THEN more
         ELSE Returned(sub.out \o more.out)

\* lines 393-401 of one iteration, prm2 being params after line 389/391
_get_data_depend_iter(t, rows, keys, prm2, dep_name, param_name, elems) ==
    Concat(_get_data_depend_rec(t, SelectRows(rows, depends_on[param_name], Head(elems)),
                                keys, prm2, Append(dep_name, Head(elems))),
           _get_data_depend_loop(t, rows, keys, prm2, Pop(Append(dep_name, Head(elems))),
                                 param_name, Tail(elems)))

\* the for loop of lines 374-401; keys is depends_on after the pop
_get_data_depend_loop(t, rows, keys, prm, dep_name, param_name, elems) ==
    IF elems = << >> THEN Returned(<< >>)
    ELSE IF param_name \notin ActiveNames THEN Raised("KeyError")
    ELSE IF ~OD_has(DependNodes(t, param_name), StrRecord(Head(elems)))
         THEN Raised("KeyError")
         ELSE _get_data_depend_iter(t, rows, keys,
                  DictPut(prm, param_name,
                          DependNodes(t, param_name).vals[StrRecord(Head(elems))]),
                  dep_name, param_name, elems)

_get_data_depend_rec(t, rows, keys, prm, dep_name) ==
    IF Len(keys) # 0
    THEN _get_data_depend_loop(t, rows, Tail(keys), prm, dep_name, Head(keys),
                               DependElements(rows, depends_on[Head(keys)]))
    ELSE Returned(<< [data |-> rows, params |-> prm, dep_name |-> dep_name,
                     dep_name_str |-> DepNameStr(dep_name)] >>)

\* the dictionary from which lines 350-353 take the node(s) of tag ''
BaseNodes(t, param) ==
    IF is_group_model /\ has_subj_nodes(param)
    THEN t[param.name].subj_nodes
    ELSE t[param.name].group_nodes

\* the params dict built by lines 344-353, template by template
RECURSIVE BaseParams(_, _, _)
BaseParams(t, ps, prm) ==
    IF ps = << >> THEN [err |-> "", params |-> prm]
    ELSE IF Head(ps).name \in DOMAIN depends_on \/ Head(ps).is_bottom_node
         THEN BaseParams(t, Tail(ps), prm)
         ELSE IF ~OD_has(BaseNodes(t, Head(ps)), "")
              THEN [err |-> "KeyError", params |-> prm]
              ELSE BaseParams(t, Tail(ps),
                              DictPut(prm, Head(ps).name, BaseNodes(t, Head(ps)).vals[""]))

\* line 358, given the params dict of lines 344-353
Partition(t, base) ==
    IF base.err # "" THEN Raised(base.err)
    ELSE _get_data_depend_rec(t, AllRows, dep_keys, base.params, << >>)

_get_data_depend(t) == Partition(t, BaseParams(t, params_include, EmptyDict))

(***************************************************************************)
(* Node creation.  The operations below take and return the object state   *)
(* w = [tmpl, heap, log, data_dep, err, call]; once err is set (an         *)
(* exception is propagating) nothing more is done.                         *)
(***************************************************************************)
\* the subj_nodes dictionaries of the active bottom templates
BottomSlots(t) ==
    [n \in {p.name : p \in {q \in Range(params_include) : q.is_bottom_node}} |->
         t[n].subj_nodes]

\* history of one node-creation call: the template's working fields and the bottom
\* templates' subj_nodes when it is made
LogEntry(w, fn, pn, tier, name, ret) ==
    [fn |-> fn, param |-> pn, tier |-> tier, name |-> name, ret |-> ret,
     tag |-> w.tmpl[pn].tag, idx |-> w.tmpl[pn].idx, data |-> w.tmpl[pn].data,
     call |-> w.call, slots |-> BottomSlots(w.tmpl)]

\* Hierarchical.create_pymc_node: knode.__class__(name, **knode.parents)
create_pymc_node(w, knode, name) ==
    IF knode.kind = "None" THEN [w |-> w, ret |-> NoNode]
    ELSE IF ~knode.has_parents
         THEN [w |-> [w EXCEPT !.err = "AttributeError"], ret |-> NoNode]
         ELSE [w |-> [w EXCEPT !.heap = Append(@, [name |-> name, kind |-> "pymc",
                                                  parents |-> knode.parents,
                                                  data |-> {}, call |-> w.call])],
               ret |-> Len(w.heap) + 1]

\* the call r of create_pymc_node made in state w, recorded in the history
Logged(w, r, pn, tier) ==
    [w |-> [r.w EXCEPT !.log = Append(@, LogEntry(w, "create_pymc_node", pn, tier,
                                                  get_full_name(pn, w.tmpl[pn]), r.ret))],
     ret |-> r.ret]

\* self.create_pymc_node(knode, param.full_name)
CreateCall(w, pn, tier, knode) ==
    Logged(w, create_pymc_node(w, knode, get_full_name(pn, w.tmpl[pn])), pn, tier)

\* the user-supplied get_bottom_node(param, params): a new node that keeps what it was given
get_bottom_node(w, pn, prm) ==
    [w |-> [w EXCEPT !.heap = Append(@, [name |-> get_full_name(pn, w.tmpl[pn]),
                                        kind |-> "bottom",
                                        parents |-> prm,
                                        data |-> w.tmpl[pn].data[1],
                                        call |-> w.call]),
                    !.log = Append(@, LogEntry(w, "get_bottom_node", pn, "bottom",
                                               get_full_name(pn, w.tmpl[pn]),
                                               Len(w.heap) + 1))],
     ret |-> Len(w.heap) + 1]

RECURSIVE SubjLoop(_, _, _, _, _)
RECURSIVE SubjStore(_, _, _, _, _)

\* line 793: the assignment of the node returned by call r, then the next subject
SubjStore(r, pn, tag, rows, subj_idx) ==
    IF r.w.err # "" THEN r.w
    ELSE SubjLoop([r.w EXCEPT !.tmpl[pn].subj_nodes.vals[tag][subj_idx + 1] = r.ret],
                  pn, tag, rows, subj_idx + 1)

\* lines 789-793
SubjLoop(w, pn, tag, rows, subj_idx) ==
    IF subj_idx >= _num_subjs THEN w
    ELSE SubjStore(CreateCall([w EXCEPT !.tmpl[pn].data =
                                            Some(SubjRows(rows, _subjs[subj_idx + 1])),
                                        !.tmpl[pn].idx = Some(subj_idx)],
                              pn, "subj", ParamByName(pn).subj_knode),
                   pn, tag, rows, subj_idx)

\* a variant that creates a dispersion node for every tag
NewVarNode_Always(param, var_nodes) == TRUE

\* whether _set_subj_nodes creates a dispersion node (line 761)
NewVarNode(param, var_nodes) == OD_len(var_nodes) = 0 \/ ~param.share_var

\* the tag under which the dispersion node is named (lines 754-757)
VarTag(param, tag) == IF param.share_var THEN "var" ELSE "var" \o tag

\* lines 761-764: the dispersion node of the tag, created or copied
VarNode(w, pn, param) ==
    IF NewVarNode(param, w.tmpl[pn].var_nodes)
    THEN CreateCall(w, pn, "var", param.var_knode)
    ELSE [w |-> w, ret |-> OD_first(w.tmpl[pn].var_nodes)]

\* lines 767-772: reset, then the pointers to the tag's group and dispersion node
SetPointers(h, tag) ==
    [h EXCEPT !.group = Some(h.group_nodes.vals[tag]),
              !.tag = Some(tag), !.data = None, !.idx = None,
              !.var = Some(h.var_nodes.vals[tag])]

\* lines 781-784: the parents written into param.subj_knode.args
SubjKnodeArgs(args, param, tr) ==
    LET a1 == IF param.group_label # None
              THEN DictPut(args, param.group_label[1], tr[1]) ELSE args
    IN IF param.var_label # None THEN DictPut(a1, param.var_label[1], tr[2]) ELSE a1

\* lines 774-787 on the template
SetArgs(h, param, tag) ==
    [h EXCEPT !.args = SubjKnodeArgs(@, param,
                                     transform(param.transform, h.group[1], h.var[1])),
              !.subj_nodes = OD_put(@, tag, np_empty(_num_subjs))]

\* line 795 at the end of _set_subj_nodes
ResetParam(w, pn) == IF w.err # "" THEN w ELSE [w EXCEPT !.tmpl[pn] = reset(@)]

\* lines 762-795, r being the outcome of lines 761-764
SubjTier(r, pn, tag, rows, param) ==
    IF r.w.err # "" THEN r.w
    ELSE ResetParam(
           SubjLoop([r.w EXCEPT !.tmpl[pn] =
                         SetArgs(SetPointers([@ EXCEPT !.var_nodes = OD_put(@, tag, r.ret)],
                                             tag),
                                 param, tag)],
                    pn, tag, rows, 0),
           pn)

_set_subj_nodes(w, pn, tag, rows) ==
    SubjTier(VarNode([w EXCEPT !.tmpl[pn].data = Some(rows),
                               !.tmpl[pn].tag = Some(VarTag(ParamByName(pn), tag))],
                     pn, ParamByName(pn)),
             pn, tag, rows, ParamByName(pn))

\* self.data[(data_dep == uniq_date)] of _set_dependent_param (line 700)
DataDepSelect(cols, uniq_date) == {r \in AllRows : Project(data[r], cols) = uniq_date}

\* a variant that keeps only the first unique element
UniqDataDep_FirstOnly(cols) ==
    IF np_unique(AllRows, cols) = << >> THEN << >> ELSE <<Head(np_unique(AllRows, cols))>>

\* a variant that takes every combination of levels, present in the table or not
UniqDataDep_AllLevels(cols) == SortedSeq([1..Len(cols) -> Levels])

\* uniq_data_dep of _set_dependent_param (lines 691-692)
UniqDataDep(cols) == np_unique(AllRows, cols)

\* param.group_nodes[tag] = <the node returned by call r>; param.reset()
GroupStore(r, pn, tag) ==
    [r.w EXCEPT !.tmpl[pn] = reset([@ EXCEPT !.group_nodes = OD_put(@, tag, r.ret)])]

\* lines 708-713 and 729-733, r being the call of create_pymc_node for the group node
GroupTier(r, pn, tag, rows) ==
    IF r.w.err # "" THEN r.w
    ELSE IF is_group_model /\ has_subj_nodes(ParamByName(pn))
         THEN _set_subj_nodes(GroupStore(r, pn, tag), pn, tag, rows)
         ELSE GroupStore(r, pn, tag)

RECURSIVE DependentLoop(_, _, _)
RECURSIVE DependentNext(_, _, _)

\* the next iteration of the loop of line 698, unless the last one raised
DependentNext(w, pn, elems) ==
    IF w.err # "" THEN w ELSE DependentLoop(w, pn, Tail(elems))

\* lines 698-713
DependentLoop(w, pn, elems) ==
    IF elems = << >> THEN w
    ELSE DependentNext(
           GroupTier(CreateCall([w EXCEPT !.tmpl[pn].tag = Some(StrRecord(Head(elems))),
                                          !.tmpl[pn].data =
                                              Some(DataDepSelect(depends_on[pn], Head(elems)))],
                                pn, "group", ParamByName(pn).group_knode),
                     pn, StrRecord(Head(elems)), DataDepSelect(depends_on[pn], Head(elems))),
           pn, elems)

_set_dependent_param(w, pn) == DependentLoop(w, pn, UniqDataDep(depends_on[pn]))

_set_independet_param(w, pn) ==
    GroupTier(CreateCall([w EXCEPT !.tmpl[pn].tag = Some("")],
                         pn, "group", ParamByName(pn).group_knode),
              pn, "", AllRows)

(***************************************************************************)
(* Bottom nodes.                                                           *)
(***************************************************************************)
\* whether the lookup of lines 859-868 raises KeyError for this template
LookupFails(sp, ht, prm, dep_name) ==
    IF OD_has(ht.subj_nodes, dep_name)
    THEN ~has_subj_nodes(sp) /\ ~OD_has(ht.group_nodes, dep_name)
    ELSE sp.name \notin DOMAIN prm

\* lines 859-863: a template without subject nodes
GroupTierLookup(sp, ht, prm, dep_name) ==
    IF OD_has(ht.subj_nodes, dep_name) THEN ht.group_nodes.vals[dep_name]
    ELSE prm[sp.name]

\* a variant that takes the first subject's node whatever the subject
SubjTierLookup_FirstSubject(sp, ht, prm, dep_name, i) ==
    IF OD_has(ht.subj_nodes, dep_name) THEN ht.subj_nodes.vals[dep_name][1]
    ELSE prm[sp.name][1]

\* lines 864-868: a template with subject nodes, for subject i
SubjTierLookup(sp, ht, prm, dep_name, i) ==
    IF OD_has(ht.subj_nodes, dep_name) THEN ht.subj_nodes.vals[dep_name][i + 1]
    ELSE prm[sp.name][i + 1]

RECURSIVE SelectedSubjNodes(_, _, _, _, _, _)
\* lines 853-868: the params handed to get_bottom_node for subject i (grouped model)
SelectedSubjNodes(t, ps, prm, dep_name, i, sel) ==
    IF ps = << >> THEN [err |-> "", params |-> sel]
    ELSE IF LookupFails(Head(ps), t[Head(ps).name], prm, dep_name)
         THEN [err |-> "KeyError", params |-> sel]
         ELSE SelectedSubjNodes(t, Tail(ps), prm, dep_name, i,
                  DictPut(sel, Head(ps).name,
                          IF ~has_subj_nodes(Head(ps))
                          THEN GroupTierLookup(Head(ps), t[Head(ps).name], prm, dep_name)
                          ELSE SubjTierLookup(Head(ps), t[Head(ps).name], prm, dep_name, i)))

\* a variant that never skips a subject
SkipSubject_Never(data_subj) == FALSE

\* line 850: skip a subject that has no row in the partition
SkipSubject(data_subj) == data_subj = {}

\* line 874-875: param.subj_nodes[dep_name][i] = <the node of call r>; param.reset()
BottomStore(r, pn, dep_name, i) ==
    [r.w EXCEPT !.tmpl[pn] = reset([@ EXCEPT !.subj_nodes.vals[dep_name][i + 1] = r.ret])]

RECURSIVE BottomSubjLoop(_, _, _, _, _, _)
RECURSIVE BottomSubjCall(_, _, _, _, _, _, _)

\* lines 870-875 for subject i, s being the outcome of lines 853-868
BottomSubjCall(w, pn, rows, prm, dep_name, i, s) ==
    IF s.err # "" THEN [w EXCEPT !.err = s.err]
    ELSE BottomSubjLoop(
           BottomStore(get_bottom_node([w EXCEPT !.tmpl[pn].tag = Some(dep_name),
                                                 !.tmpl[pn].idx = Some(i),
                                                 !.tmpl[pn].data =
                                                     Some(SubjRows(rows, _subjs[i + 1]))],
                                       pn, s.params),
                       pn, dep_name, i),
           pn, rows, prm, dep_name, i + 1)

\* lines 846-875
BottomSubjLoop(w, pn, rows, prm, dep_name, i) ==
    IF i >= _num_subjs THEN w
    ELSE IF SkipSubject(SubjRows(rows, _subjs[i + 1]))
         THEN BottomSubjLoop(w, pn, rows, prm, dep_name, i + 1)
         ELSE BottomSubjCall(w, pn, rows, prm, dep_name, i,
                  SelectedSubjNodes(w.tmpl, params_include, prm, dep_name, i, EmptyDict))

RECURSIVE UngroupedParams(_, _, _, _)
\* lines 880-882
UngroupedParams(t, ps, prm, dep_name) ==
    IF ps = << >> THEN prm
    ELSE IF OD_has(t[Head(ps).name].subj_nodes, dep_name)
         THEN UngroupedParams(t, Tail(ps),
                              DictPut(prm, Head(ps).name,
                                      t[Head(ps).name].subj_nodes.vals[dep_name]),
                              dep_name)
         ELSE UngroupedParams(t, Tail(ps), prm, dep_name)

\* line 886-887: param.subj_nodes[dep_name] = <the node of call r>; param.reset()
UngroupedStore(r, pn, dep_name) ==
    [r.w EXCEPT !.tmpl[pn] = reset([@ EXCEPT !.subj_nodes = OD_put(@, dep_name, r.ret)])]

_create_bottom_node(w, pn, rows, prm, dep_name) ==
    IF is_group_model
    THEN BottomSubjLoop(w, pn, rows, prm, dep_name, 0)
    ELSE UngroupedStore(
           get_bottom_node([w EXCEPT !.tmpl[pn].tag = Some(dep_name),
                                     !.tmpl[pn].data = Some(rows)],
                           pn, UngroupedParams(w.tmpl, params_include, prm, dep_name)),
           pn, dep_name)

\* lines 817-820: the placeholder of one partition
Placeholder(param) ==
    IF is_group_model /\ has_subj_nodes(param) THEN np_empty(_num_subjs) ELSE NoNode

RECURSIVE BottomLoop(_, _, _, _)
\* lines 814-822
BottomLoop(w, pn, init, tuples) ==
    IF tuples = << >> \/ w.err # "" THEN w
    ELSE BottomLoop(IF init
                    THEN [w EXCEPT !.tmpl[pn].subj_nodes =
                              OD_put(@, Head(tuples).dep_name_str,
                                     Placeholder(ParamByName(pn)))]
                    ELSE _create_bottom_node(w, pn, Head(tuples).data, Head(tuples).params,
                                             Head(tuples).dep_name_str),
                    pn, init, Tail(tuples))

\* lines 814-822, dd being the outcome of line 811
BottomNodes(w, pn, init, dd) ==
    IF dd.err # "" THEN [w EXCEPT !.err = dd.err]
    ELSE BottomLoop([w EXCEPT !.data_dep = dd.out], pn, init, dd.out)

_set_bottom_nodes(w, pn, init) == BottomNodes(w, pn, init, _get_data_depend(w.tmpl))

(***************************************************************************)
(* create_nodes.                                                           *)
(***************************************************************************)
RECURSIVE NonBottomLoop(_, _)
\* lines 432-440
NonBottomLoop(w, ps) ==
    IF ps = << >> \/ w.err # "" THEN w
    ELSE NonBottomLoop(IF Head(ps).is_bottom_node THEN w
                       ELSE IF Head(ps).name \in DOMAIN depends_on
                            THEN _set_dependent_param(w, Head(ps).name)
                            ELSE _set_independet_param(w, Head(ps).name),
                       Tail(ps))

RECURSIVE BottomPhase_Interleaved(_, _, _)
\* a variant that initializes each bottom template just before populating it
BottomPhase_Interleaved(w, ps, init) ==
    IF init \/ ps = << >> \/ w.err # "" THEN w
    ELSE BottomPhase_Interleaved(
             IF ~Head(ps).is_bottom_node THEN w
             ELSE _set_bottom_nodes(_set_bottom_nodes(w, Head(ps).name, TRUE),
                                    Head(ps).name, FALSE),
             Tail(ps), init)

RECURSIVE BottomPhase(_, _, _)
\* lines 443-446 (init = TRUE) and 449-452 (init = FALSE)
BottomPhase(w, ps, init) ==
    IF ps = << >> \/ w.err # "" THEN w
    ELSE BottomPhase(IF ~Head(ps).is_bottom_node THEN w
                     ELSE _set_bottom_nodes(w, Head(ps).name, init),
                     Tail(ps), init)

\* a variant that runs the three loops a second time (the retry of lines 467-475)
_create_Rerun(w) ==
    LET once(v) == BottomPhase(BottomPhase(NonBottomLoop(v, params_include),
                                           params_include, TRUE), params_include, FALSE)
    IN once(once(w))

\* create_nodes._create
_create(w) ==
    BottomPhase(BottomPhase(NonBottomLoop(w, params_include), params_include, TRUE),
                params_include, FALSE)

RECURSIVE RegisterTier(_, _, _, _, _)
\* for tag, node in od.iteritems(): reg[name + tag + suffix] = node
RegisterTier(reg, name, od, suffix, k) ==
    IF k > OD_len(od) THEN reg
    ELSE RegisterTier(DictPut(reg, name \o od.keys[k] \o suffix, od.vals[od.keys[k]]),
                      name, od, suffix, k + 1)

RECURSIVE Flatten(_, _, _)
\* lines 485-494
Flatten(t, ps, reg) ==
    IF ps = << >> THEN reg
    ELSE
      LET name == Head(ps).name
          h == t[name]
          n1 == RegisterTier(reg.nodes, name, h.group_nodes, "_group", 1)
          n2 == RegisterTier(n1, name, h.subj_nodes, "_subj", 1)
          n3 == RegisterTier(n2, name, h.var_nodes, "_var", 1)
      IN Flatten(t, Tail(ps),
                 [nodes |-> n3,
                  group_nodes |-> RegisterTier(reg.group_nodes, name, h.group_nodes, "", 1),
                  subj_nodes |-> RegisterTier(reg.subj_nodes, name, h.subj_nodes, "", 1),
                  var_nodes |-> RegisterTier(reg.var_nodes, name, h.var_nodes, "", 1)])

EmptyRegistry ==
    [nodes |-> EmptyDict, group_nodes |-> EmptyDict,
     subj_nodes |-> EmptyDict, var_nodes |-> EmptyDict]

(***************************************************************************)
(* get_node.  The result is [err, ret].                                    *)
(***************************************************************************)
\* self.params_dict[node_name] (lines 458-460)
params_dict(node_name) == CHOOSE p \in Range(params) : p.name = node_name

\* line 897: the test that decides between the node and the default
InModel(node_name) == node_name \in include

\* Hierarchical.get_node
get_node(node_name, prm) ==
    IF InModel(node_name)
    THEN IF node_name \in DOMAIN prm THEN [err |-> "", ret |-> Some(prm[node_name])]
         ELSE [err |-> "KeyError", ret |-> None]
    ELSE IF node_name \notin {p.name : p \in Range(params)}
         THEN [err |-> "KeyError", ret |-> None]
         ELSE IF params_dict(node_name).default = None
              THEN [err |-> "AssertionError", ret |-> None]
              ELSE [err |-> "", ret |-> params_dict(node_name).default]

(***************************************************************************)
(* The model objects considered.                                           *)
(***************************************************************************)
RowTypes == [subj_idx : Subjects, c1 : Levels, c2 : Levels]
RowKey(r) == <<r.subj_idx, r.c1, r.c2>>

\* the rows of a table, distinct and in a fixed order
RowSeq(S) ==
    LET u == SortedSeq({RowKey(r) : r \in S})
    IN [k \in 1..Len(u) |-> [subj_idx |-> u[k][1], c1 |-> u[k][2], c2 |-> u[k][3]]]

DataSets == {RowSeq(S) : S \in {T \in SUBSET RowTypes : Cardinality(T) <= MaxRows}}

Labels == <<Some("mu"), Some("tau")>>
NoLabels == <<None, None>>
AllTiers(k) == <<k, k, k>>
GroupOnly(k) == <<k, NoKnode, NoKnode>>

\* the non-bottom template "a"
TemplatesA ==
    { HNode("a", FALSE, GroupOnly(KnodeWithParents), NoLabels, "None", FALSE),
      HNode("a", FALSE, AllTiers(KnodeWithParents), Labels, "None", FALSE),
      HNode("a", FALSE, AllTiers(KnodeWithParents), Labels, "None", TRUE),
      HNode("a", FALSE, AllTiers(KnodeWithParents), Labels, "precision", FALSE),
      HNode("a", FALSE, AllTiers(Knode), Labels, "None", FALSE) }

\* the non-bottom template "b"
TemplatesB ==
    { HNode("b", FALSE, GroupOnly(KnodeWithParents), NoLabels, "None", FALSE),
      HNode("b", FALSE, AllTiers(KnodeWithParents), Labels, "None", FALSE),
      Optional(HNode("b", FALSE, GroupOnly(KnodeWithParents), NoLabels, "None", FALSE),
               "default") }

\* the bottom template "x"
TemplateX == HNode("x", TRUE, AllTiers(NoKnode), NoLabels, "None", FALSE)

\* depends_on with the iteration order of its keys
Dependencies ==
    { [d |-> EmptyDict, keys |-> << >>],
      [d |-> [a |-> <<"c1">>], keys |-> <<"a">>],
      [d |-> [a |-> <<"c1", "c2">>], keys |-> <<"a">>],
      [d |-> [a |-> <<"c1">>, b |-> <<"c2">>], keys |-> <<"a", "b">>],
      [d |-> [a |-> <<"c1">>, b |-> <<"c2">>], keys |-> <<"b", "a">>],
      [d |-> [x |-> <<"c1">>], keys |-> <<"x">>],
      [d |-> [z |-> <<"c1">>], keys |-> <<"z">>] }

\* the defaults of the constructor arguments is_group_model, replace_params, update_params
NoArgs == [is_group_model |-> None, replace_params |-> None, update_params |-> None]

\* the model object after __init__
ModelInit ==
    [tmpl |-> [n \in {"a", "b", "x"} |-> HNodeInit],
     heap |-> << >>, log |-> << >>, data_dep |-> << >>,
     registry |-> EmptyRegistry, status |-> "new", error |-> "", ncalls |-> 0]

Init ==
    /\ data \in DataSets
    /\ \E ta \in TemplatesA, tb \in TemplatesB : params = <<ta, TemplateX, tb>>
    /\ \E dep \in Dependencies : depends_on = dep.d /\ dep_keys = dep.keys
    /\ is_group_model \in BOOLEAN
    /\ include \in {{}, {"b"}}
    /\ model = ModelInit
    /\ ctor_args = NoArgs
    /\ sampler = NoSampler

\* the model object when _create has ended in state w (lines 476-508)
AfterCreate(m, w) ==
    [tmpl |-> w.tmpl, heap |-> w.heap, log |-> w.log, data_dep |-> w.data_dep,
     registry |-> IF w.err = "" THEN Flatten(w.tmpl, params_include, EmptyRegistry)
                  ELSE m.registry,
     status |-> IF w.err = "" THEN "done" ELSE "error",
     error |-> w.err,
     ncalls |-> m.ncalls + 1]

\* one call of create_nodes, from its first line to its return or to the exception
create_nodes ==
    /\ status \in {"new", "done"}
    /\ ncalls < MaxCalls
    /\ model' = AfterCreate(model, _create([tmpl |-> tmpl, heap |-> heap, log |-> log,
                                            data_dep |-> data_dep, err |-> "",
                                            call |-> ncalls + 1]))
    /\ UNCHANGED <<data, params, depends_on, dep_keys, is_group_model, include, ctor_args,
                   sampler>>

Next == create_nodes

Spec == Init /\ [][Next]_vars

(***************************************************************************)
(* Construction: Hierarchical.__init__, _init_params and                   *)
(* _change_default_params.  Before __init__ has run (status "args") the    *)
(* variables hold the constructor arguments; is_group_model, which the     *)
(* object does not have yet, is FALSE.                                     *)
(***************************************************************************)
\* the attributes a template has when _change_default_params runs: the arguments of
\* HNode.__init__ (lines 70-76), what lines 77-91 add, and the class attributes
HNodeAttrs ==
    {"name", "is_bottom_node", "vars", "default", "optional", "subj_knode", "group_knode",
     "var_knode", "group_label", "var_label", "var_type", "transform", "share_var",
     "use_spx", "verbose", "self", "knodes", "group_nodes", "var_nodes", "subj_nodes",
     "group", "tag", "data", "idx", "reset", "get_full_name", "full_name", "var_func"}

\* a variant for which every key is an attribute
hasattr_Any(param, key) == TRUE

\* hasattr(self.params[i], key) (line 325)
hasattr(param, key) == key \in HNodeAttrs

\* setattr(self.params[i], key, new_value) (line 326), on the fields the model keeps
setattr(param, key, new_value) ==
    IF key \in DOMAIN param THEN [param EXCEPT ![key] = new_value] ELSE param

\* lines 312-314: every template of that name is replaced
Replaced(ps, new_param) ==
    [i \in 1..Len(ps) |-> IF ps[i].name = new_param.name THEN new_param ELSE ps[i]]

RECURSIVE ReplaceLoop(_, _)
\* lines 311-314
ReplaceLoop(ps, new_params) ==
    IF new_params = << >> THEN ps
    ELSE ReplaceLoop(Replaced(ps, Head(new_params)), Tail(new_params))

\* replace_params as the loop of line 311 sees it (lines 276-277 and 309-310)
ReplaceList(replace_params) ==
    IF replace_params = None THEN << >>
    ELSE IF replace_params[1].type = "HNode" THEN <<replace_params[1].v[1]>>
         ELSE replace_params[1].v

RECURSIVE UpdateFields(_, _)
\* lines 324-328 on one template; items is dict.iteritems()
UpdateFields(param, items) ==
    IF items = << >> THEN [err |-> "", param |-> param]
    ELSE IF hasattr(param, Head(items)[1])
         THEN UpdateFields(setattr(param, Head(items)[1], Head(items)[2]), Tail(items))
         ELSE [err |-> "ValueError: invalid key", param |-> param]

\* lines 322-323: the first index whose template has that name, 0 if there is none
FoundParam(ps, param_name) ==
    IF \E i \in 1..Len(ps) : ps[i].name = param_name
    THEN CHOOSE i \in 1..Len(ps) :
            /\ ps[i].name = param_name
            /\ \A j \in 1..(i - 1) : ps[j].name # param_name
    ELSE 0

\* lines 324-330, r being the outcome of the loop over the fields of template i
Updated(ps, i, r) == [err |-> r.err, params |-> [ps EXCEPT ![i] = r.param]]

\* lines 321-332 for one entry of update_params
UpdateEntry(ps, entry) ==
    IF FoundParam(ps, entry.name) = 0
    THEN [err |-> "ValueError: invalid parameter", params |-> ps]
    ELSE Updated(ps, FoundParam(ps, entry.name),
                 UpdateFields(ps[FoundParam(ps, entry.name)], entry.items))

RECURSIVE UpdateLoop(_, _)
RECURSIVE UpdateNext(_, _)

\* the next entry of the loop of line 320, unless the last one raised
UpdateNext(r, entries) ==
    IF r.err # "" THEN r ELSE UpdateLoop(r.params, Tail(entries))

\* lines 320-332; entries is update_params.iteritems()
UpdateLoop(ps, entries) ==
    IF entries = << >> THEN [err |-> "", params |-> ps]
    ELSE UpdateNext(UpdateEntry(ps, Head(entries)), entries)

\* lines 316-332 on the list left by the replacements
UpdateParams(ps, update_params) ==
    IF update_params = None THEN [err |-> "", params |-> ps]
    ELSE UpdateLoop(ps, update_params[1])

\* Hierarchical._change_default_params: [err, params]
_change_default_params(ps, replace_params, update_params) ==
    UpdateParams(ReplaceLoop(ps, ReplaceList(replace_params)), update_params)

\* the columns of the table (self.data.dtype.names)
Columns == {"subj_idx", "c1", "c2"}

\* lines 238-242: the column that raises KeyError, if there is one
MissingColumn ==
    \E k \in DOMAIN depends_on : \E j \in 1..Len(depends_on[k]) : depends_on[k][j] \notin Columns

\* lines 246-260: self.is_group_model from the argument
GroupModel(arg) ==
    IF arg = None THEN Len(np_unique(AllRows, <<"subj_idx">>)) # 1 ELSE arg[1]

\* the object when _change_default_params has ended with outcome r (lines 267, 280-302)
Constructed(r) ==
    [model EXCEPT !.status = IF r.err = "" THEN "new" ELSE "error", !.error = r.err]

\* Hierarchical.__init__, from its first line to its return or to the exception
__init__ ==
    /\ status = "args"
    /\ IF MissingColumn
       THEN /\ model' = [model EXCEPT !.status = "error", !.error = "KeyError"]
            /\ UNCHANGED <<params, is_group_model>>
       ELSE /\ is_group_model' = GroupModel(ctor_args.is_group_model)
            /\ params' = _change_default_params(params, ctor_args.replace_params,
                                                ctor_args.update_params).params
            /\ model' = Constructed(_change_default_params(params, ctor_args.replace_params,
                                                           ctor_args.update_params))
    /\ UNCHANGED <<data, depends_on, dep_keys, include, ctor_args, sampler>>

\* tables of at most one row
SmallDataSets == {d \in DataSets : Len(d) <= 1}

\* a template named "a" that differs from every default one, and one named "q"
NewA == HNode("a", FALSE, AllTiers(KnodeWithParents), NoLabels, "precision", TRUE)
NewQ == HNode("q", FALSE, GroupOnly(KnodeWithParents), NoLabels, "None", FALSE)

\* the values of the argument replace_params: one HNode (held in v[1]) or a list
ReplaceArgs ==
    { None,
      Some([type |-> "HNode", v |-> <<NewA>>]),
      Some([type |-> "list", v |-> <<NewA>>]),
      Some([type |-> "HNode", v |-> <<NewQ>>]),
      Some([type |-> "list", v |-> <<NewQ, NewA>>]) }

\* the values of the argument update_params, with the iteration order of each dict
UpdateArgs ==
    { None,
      Some(<< >>),
      Some(<<[name |-> "a", items |-> <<<<"share_var", TRUE>>>>]>>),
      Some(<<[name |-> "a", items |-> <<<<"bogus", TRUE>>>>]>>),
      Some(<<[name |-> "a", items |-> <<<<"share_var", TRUE>>, <<"bogus", TRUE>>>>]>>),
      Some(<<[name |-> "a", items |-> <<<<"bogus", TRUE>>, <<"share_var", TRUE>>>>]>>),
      Some(<<[name |-> "q", items |-> <<<<"share_var", TRUE>>>>]>>),
      Some(<<[name |-> "b", items |-> <<<<"verbose", TRUE>>>>],
             [name |-> "q", items |-> <<<<"share_var", TRUE>>>>]>>),
      Some(<<[name |-> "b", items |-> <<<<"share_var", TRUE>>>>],
             [name |-> "a", items |-> <<<<"transform", "precision">>>>]>>) }

\* the values of the argument depends_on
DependsOnArgs ==
    { [d |-> EmptyDict, keys |-> << >>],
      [d |-> [a |-> <<"c1">>], keys |-> <<"a">>],
      [d |-> [a |-> <<"c9">>], keys |-> <<"a">>] }

\* the constructor arguments, and the list returned by create_params
InitArgs ==
    /\ data \in SmallDataSets
    /\ \E ta \in TemplatesA, tb \in TemplatesB : params = <<ta, TemplateX, tb>>
    /\ \E dep \in DependsOnArgs : depends_on = dep.d /\ dep_keys = dep.keys
    /\ is_group_model = FALSE
    /\ include = {}
    /\ model = [ModelInit EXCEPT !.status = "args"]
    /\ ctor_args \in [is_group_model : {None, Some(TRUE), Some(FALSE)},
                      replace_params : ReplaceArgs, update_params : UpdateArgs]
    /\ sampler = NoSampler

NextInit == __init__ \/ create_nodes

SpecInit == InitArgs /\ [][NextInit]_vars

(***************************************************************************)
(* Models with a second bottom template "y", or with a third template      *)
(* whose name "avar" is the name of "a" followed by 'var'.                 *)
(***************************************************************************)
TemplateY == HNode("y", TRUE, AllTiers(NoKnode), NoLabels, "None", FALSE)
TemplateAvar == HNode("avar", FALSE, GroupOnly(KnodeWithParents), NoLabels, "None", FALSE)

InitVariants ==
    /\ data \in DataSets
    /\ \E ta \in TemplatesA, t3 \in {TemplateY, TemplateAvar} : params = <<ta, TemplateX, t3>>
    /\ \E dep \in Dependencies :
           /\ DOMAIN dep.d \subseteq {"a"}
           /\ depends_on = dep.d /\ dep_keys = dep.keys
    /\ is_group_model \in BOOLEAN
    /\ include = {}
    /\ model = [ModelInit EXCEPT !.tmpl = [n \in {"a", "x", "y", "avar"} |-> HNodeInit]]
    /\ ctor_args = NoArgs
    /\ sampler = NoSampler

SpecVariants == InitVariants /\ [][Next]_vars

(***************************************************************************)
(* The slice sampler (kabuki/slice.py).                                    *)
(*                                                                         *)
(* Positions and log-densities are integers.  The log-density of the node  *)
(* and its children is a table over the positions 0..MaxPos and NegInf at  *)
(* every other position.  A draw of rand() picks one of the integer points *)
(* of the half-open interval it is scaled to.  Floating-point rounding is  *)
(* not modelled, and the assert statements are executed (no python -O).    *)
(***************************************************************************)
NegInf == -1
Positions == 0 .. MaxPos
Densities == [Positions -> 0 .. MaxLevel]

\* the log-density at position x
L(s, x) == IF x \in Positions THEN s.logp[x] ELSE NegInf

\* self.logp_plus_loglike: the log-density at the node's current value
logp_plus_loglike(s) == L(s, s.stoch)

\* SliceSampling.__init__ (lines 9-24) for a node whose value is x; the fields
\* value .. iter are the locals of step(), stoch is stoch.value, nsteps counts
\* the step() calls, nassign the assignments to stoch.value made by the
\* current call and neval0 is self.neval at the start of the current call
SliceSampling(logp, x, width, maxiter) ==
    [status |-> "idle", pc |-> "", error |-> "", logp |-> logp, stoch |-> x,
     width |-> width, maxiter |-> maxiter, neval |-> 0,
     value |-> x, z |-> 0, xl |-> x, xr |-> x, xp |-> x, iter |-> 0,
     nsteps |-> 0, nassign |-> 0, neval0 |-> 0]

\* z = self.logp_plus_loglike - np.random.exponential() (line 31)
Thresholds(s) == NegInf .. logp_plus_loglike(s)

\* r = self.width * np.random.rand() (line 38)
Offsets(width) == 0 .. (width - 1)

\* a variant that can draw the right end of the interval
Draws_Closed(xl, xr) == xl .. xr

\* rand() * (xr - xl) + xl (lines 72, 82)
Draws(xl, xr) == xl .. (xr - 1)

\* lines 27-47: the locals, the initial interval and the first probe stoch.value = xl
Begin(s, z, r) ==
    [s EXCEPT !.status = "running", !.pc = "left", !.error = "",
              !.value = s.stoch, !.z = z,
              !.xl = s.stoch - r, !.xr = s.stoch - r + s.width,
              !.iter = 0, !.stoch = s.stoch - r,
              !.nsteps = @ + 1, !.nassign = 1, !.neval0 = s.neval]

\* a variant of the shrink-in loop without the iteration limit
ShrinkCond_Unbounded(s) == logp_plus_loglike(s) < s.z

\* the loop conditions of lines 48 and 61, and of line 77
StepOutCond(s) == logp_plus_loglike(s) > s.z /\ s.iter < s.maxiter
ShrinkCond(s) == logp_plus_loglike(s) < s.z /\ s.iter < s.maxiter

\* a variant without the assert statements
AssertIter_Stripped(s) == TRUE

\* assert iter < self.maxiter (lines 53, 66, 86)
AssertIter(s) == s.iter < s.maxiter

\* a variant that puts the node back to the value it had before the step
Raise_Rollback(s, msg) == [s EXCEPT !.status = "failed", !.error = msg, !.stoch = s.value]

\* the AssertionError leaves step()
Raise(s, msg) == [s EXCEPT !.status = "failed", !.error = msg]

\* lines 49-51
Left(s) ==
    [s EXCEPT !.xl = @ - s.width, !.stoch = s.xl - s.width, !.iter = @ + 1,
              !.nassign = @ + 1]

\* lines 53-60
LeftEnd(s) ==
    IF AssertIter(s)
    THEN [s EXCEPT !.neval = @ + s.iter, !.iter = 0, !.stoch = s.xr,
                   !.nassign = @ + 1, !.pc = "right"]
    ELSE Raise(s, "Step-out procedure failed")

\* lines 62-64
Right(s) ==
    [s EXCEPT !.xr = @ + s.width, !.stoch = s.xr + s.width, !.iter = @ + 1,
              !.nassign = @ + 1]

\* lines 66-76, xp the point drawn at line 72
RightEnd(s, xp) ==
    IF AssertIter(s)
    THEN [s EXCEPT !.neval = @ + s.iter, !.iter = 0, !.xp = xp, !.stoch = xp,
                   !.nassign = @ + 1, !.pc = "shrink"]
    ELSE Raise(s, "Step-out procedure failed")

\* a variant that moves the right end only for a point left of the old value
ShrunkXr_Swapped(s) == IF s.xp > s.value THEN s.xr ELSE s.xp

\* lines 78-81: the interval after the rejected point has replaced one end
ShrunkXl(s) == IF s.xp > s.value THEN s.xl ELSE s.xp
ShrunkXr(s) == IF s.xp > s.value THEN s.xp ELSE s.xr

\* lines 78-84, xp the point drawn at line 82
Shrink(s, xp) ==
    [s EXCEPT !.xl = ShrunkXl(s), !.xr = ShrunkXr(s), !.xp = xp, !.stoch = xp,
              !.iter = @ + 1, !.nassign = @ + 1]

\* lines 86-89
ShrinkEnd(s) ==
    IF AssertIter(s)
    THEN [s EXCEPT !.neval = @ + s.iter, !.status = "returned"]
    ELSE Raise(s, "Shrink-in procedure failed.")

\* a call of step() starts (the driver may call it again after a failure)
step ==
    /\ sampler.status \in {"idle", "returned", "failed"}
    /\ sampler.nsteps < MaxSteps
    /\ \E z \in Thresholds(sampler), r \in Offsets(sampler.width) :
           sampler' = Begin(sampler, z, r)
    /\ UNCHANGED <<data, params, depends_on, dep_keys, is_group_model, include, model,
                   ctor_args>>

\* one iteration of the loop of line 48
StepOutLeft ==
    /\ sampler.status = "running" /\ sampler.pc = "left"
    /\ StepOutCond(sampler)
    /\ sampler' = Left(sampler)
    /\ UNCHANGED <<data, params, depends_on, dep_keys, is_group_model, include, model,
                   ctor_args>>

\* the loop of line 48 ends
StepOutLeftEnd ==
    /\ sampler.status = "running" /\ sampler.pc = "left"
    /\ ~StepOutCond(sampler)
    /\ sampler' = LeftEnd(sampler)
    /\ UNCHANGED <<data, params, depends_on, dep_keys, is_group_model, include, model,
                   ctor_args>>

\* one iteration of the loop of line 61
StepOutRight ==
    /\ sampler.status = "running" /\ sampler.pc = "right"
    /\ StepOutCond(sampler)
    /\ sampler' = Right(sampler)
    /\ UNCHANGED <<data, params, depends_on, dep_keys, is_group_model, include, model,
                   ctor_args>>

\* the loop of line 61 ends
StepOutRightEnd ==
    /\ sampler.status = "running" /\ sampler.pc = "right"
    /\ ~StepOutCond(sampler)
    /\ \E xp \in Draws(sampler.xl, sampler.xr) : sampler' = RightEnd(sampler, xp)
    /\ UNCHANGED <<data, params, depends_on, dep_keys, is_group_model, include, model,
                   ctor_args>>

\* one iteration of the loop of line 77
ShrinkIn ==
    /\ sampler.status = "running" /\ sampler.pc = "shrink"
    /\ ShrinkCond(sampler)
    /\ \E xp \in Draws(ShrunkXl(sampler), ShrunkXr(sampler)) : sampler' = Shrink(sampler, xp)
    /\ UNCHANGED <<data, params, depends_on, dep_keys, is_group_model, include, model,
                   ctor_args>>

\* the loop of line 77 ends and step() returns or raises
ShrinkInEnd ==
    /\ sampler.status = "running" /\ sampler.pc = "shrink"
    /\ ~ShrinkCond(sampler)
    /\ sampler' = ShrinkEnd(sampler)
    /\ UNCHANGED <<data, params, depends_on, dep_keys, is_group_model, include, model,
                   ctor_args>>

\* a sampler attached to a node whose current value has a finite log-density
InitSlice ==
    /\ data = << >> /\ params = << >> /\ depends_on = EmptyDict /\ dep_keys = << >>
    /\ is_group_model = FALSE /\ include = {} /\ model = ModelInit /\ ctor_args = NoArgs
    /\ \E logp \in Densities, x \in Positions, width \in 1 .. MaxWidth, maxiter \in 1 .. MaxIter :
           sampler = SliceSampling(logp, x, width, maxiter)

NextSlice ==
    \/ step
    \/ StepOutLeft
    \/ StepOutLeftEnd
    \/ StepOutRight
    \/ StepOutRightEnd
    \/ ShrinkIn
    \/ ShrinkInEnd

SpecSlice == InitSlice /\ [][NextSlice]_vars

\* the statements of a running step(): python executes them one after another, so a
\* call that has started goes on until it returns or raises
Proceed ==
    \/ StepOutLeft
    \/ StepOutLeftEnd
    \/ StepOutRight
    \/ StepOutRightEnd
    \/ ShrinkIn
    \/ ShrinkInEnd

SpecSliceFair == InitSlice /\ [][NextSlice]_vars /\ WF_vars(Proceed)

(***************************************************************************)
(* Properties.                                                             *)
(***************************************************************************)
Done == status = "done"
NonBottom == {p \in Range(params_include) : ~p.is_bottom_node}
Bottom == {p \in Range(params_include) : p.is_bottom_node}
Tags(od) == DOMAIN od.vals
\* the history entries of the latest create_nodes call
LastCall(fn) == {k \in 1..Len(log) : log[k].fn = fn /\ log[k].call = ncalls}

\* the args a subject node of template p, tag t is meant to receive
SubjParents(p, t) ==
    LET tr == transform(p.transform, tmpl[p.name].group_nodes.vals[t],
                        tmpl[p.name].var_nodes.vals[t])
    IN [l \in Range(p.group_label) \cup Range(p.var_label) |->
            IF l \in Range(p.group_label) THEN tr[1] ELSE tr[2]]

\* C1: after create_nodes on a grouped model, every subject node of every active
\* non-bottom parameter with a subject tier was created with exactly the group and
\* dispersion node of its own tag (after transform) as parents.
C1_SubjectParents ==
    (Done /\ is_group_model) =>
        \A p \in NonBottom : has_subj_nodes(p) =>
            \A t \in Tags(tmpl[p.name].subj_nodes) : \A i \in 1.._num_subjs :
                LET n == tmpl[p.name].subj_nodes.vals[t][i]
                IN n # NoNode /\ heap[n].parents = SubjParents(p, t)

\* the tag of template p for a partition with the given (non-empty) rows
OwnTag(p, rows) ==
    IF p.name \in DOMAIN depends_on
    THEN StrRecord(Project(data[CHOOSE r \in rows : TRUE], depends_on[p.name]))
    ELSE ""

DependsOnNonBottom == DOMAIN depends_on \subseteq {p.name : p \in NonBottom}

\* C2: in a grouped model whose depends_on keys are active non-bottom parameters, the
\* params passed to get_bottom_node for a partition and subject i hold, for every active
\* non-bottom parameter, its subject node of subject i (its group node if it has no
\* subject tier) under the parameter's own tag for that partition.
C2_ParentBindings ==
    (is_group_model /\ DependsOnNonBottom) =>
        \A k \in LastCall("get_bottom_node") : \A p \in NonBottom :
            LET e == log[k]
                t == OwnTag(p, e.data[1])
            IN heap[e.ret].parents[p.name] =
                   IF has_subj_nodes(p)
                   THEN tmpl[p.name].subj_nodes.vals[t][e.idx[1] + 1]
                   ELSE tmpl[p.name].group_nodes.vals[t]

\* C2 witness: two dependency entries, a bottom node of the second subject bound to the
\* subject node of "a" and to the group node of "b", both under a tag other than the first.
C2_Witness ==
    /\ Done /\ is_group_model /\ Len(dep_keys) = 2
    /\ has_subj_nodes(params[1]) /\ ~has_subj_nodes(params[3])
    /\ "(2,)" \in Tags(tmpl["a"].subj_nodes) /\ "(2,)" \in Tags(tmpl["b"].group_nodes)
    /\ \E k \in LastCall("get_bottom_node") :
          /\ log[k].idx = Some(1)
          /\ heap[log[k].ret].parents["a"] = tmpl["a"].subj_nodes.vals["(2,)"][2]
          /\ heap[log[k].ret].parents["a"] # NoNode
          /\ heap[log[k].ret].parents["b"] = tmpl["b"].group_nodes.vals["(2,)"]

\* the get_bottom_node calls of the latest create_nodes call for (template, tag, subject index)
BottomCalls(name, t, i) ==
    {k \in LastCall("get_bottom_node") :
        log[k].param = name /\ log[k].tag = Some(t) /\ log[k].idx = Some(i)}

\* C3: in a create_nodes call on a grouped model, get_bottom_node is invoked exactly once
\* for every (partition tag, subject index) whose subject has a row in the partition and
\* for no other pair; it sees exactly that subject's rows of the partition, and its
\* result is stored in subj_nodes[tag][index].
C3_BottomCalls ==
    (Done /\ is_group_model) =>
        \A p \in Bottom :
            /\ \A j \in 1..Len(data_dep) : \A i \in 0..(_num_subjs - 1) :
                  LET t == data_dep[j].dep_name_str
                      rows == SubjRows(data_dep[j].data, _subjs[i + 1])
                      calls == BottomCalls(p.name, t, i)
                  IN IF rows = {} THEN calls = {}
                     ELSE /\ Cardinality(calls) = 1
                          /\ \A k \in calls :
                                /\ log[k].data = Some(rows)
                                /\ tmpl[p.name].subj_nodes.vals[t][i + 1] = log[k].ret
            /\ \A k \in LastCall("get_bottom_node") : log[k].param = p.name =>
                  \E j \in 1..Len(data_dep) : log[k].tag = Some(data_dep[j].dep_name_str)

\* C3 witness: a partition in which one subject has rows and gets a bottom node and the
\* other subject has none.
C3_Witness ==
    /\ Done /\ is_group_model /\ _num_subjs = 2
    /\ \E j \in 1..Len(data_dep) :
          /\ SubjRows(data_dep[j].data, _subjs[1]) = {}
          /\ Cardinality(BottomCalls("x", data_dep[j].dep_name_str, 1)) = 1

\* C4: the data slices of the tuples returned by the partitioner are pairwise disjoint
\* and their union is the set of all rows.
C4_Partition ==
    Done =>
        /\ UNION {data_dep[j].data : j \in 1..Len(data_dep)} = AllRows
        /\ \A j, k \in 1..Len(data_dep) :
              j # k => data_dep[j].data \cap data_dep[k].data = {}

\* C4 witness: a nested partitioning over two dependency entries with three partitions.
C4_Witness == Done /\ Len(dep_keys) = 2 /\ Len(data_dep) = 3 /\ Len(data) = 4

RECURSIVE UniqueCountProduct(_)
\* the product, over the dependency entries, of the number of unique values of the
\* entry's column(s) in the table
UniqueCountProduct(keys) ==
    IF keys = << >> THEN 1
    ELSE Len(np_unique(AllRows, depends_on[Head(keys)])) * UniqueCountProduct(Tail(keys))

\* the combinations of dependency values that occur together in a row
JointValues ==
    {[k \in 1..Len(dep_keys) |-> Project(data[r], depends_on[dep_keys[k]])] : r \in AllRows}

\* C5 as stated: the number of partitions returned by the partitioner equals the product
\* of the unique-value counts of the dependency columns.
C5_ProductOfCounts == Done => Len(data_dep) = UniqueCountProduct(dep_keys)

\* C5 amended: the number of partitions equals the number of combinations of dependency
\* values that occur together in the table (one partition if there is no dependency).
C5_CombinationsPresent ==
    Done => Len(data_dep) = IF dep_keys = << >> THEN 1 ELSE Cardinality(JointValues)

\* C5 witness: two dependency entries with two values each, only three combinations present.
C5_Witness ==
    /\ Done /\ Len(dep_keys) = 2 /\ UniqueCountProduct(dep_keys) = 4
    /\ Len(data_dep) = 3 /\ Cardinality(JointValues) = 3

\* the nodes a template holds in its three dictionaries
TemplateNodes(h) ==
    {h.group_nodes.vals[t] : t \in Tags(h.group_nodes)}
    \cup {h.var_nodes.vals[t] : t \in Tags(h.var_nodes)}
    \cup (IF is_group_model
          THEN UNION {Range(h.subj_nodes.vals[t]) : t \in Tags(h.subj_nodes)}
          ELSE {h.subj_nodes.vals[t] : t \in Tags(h.subj_nodes)})
GraphNodes == UNION {TemplateNodes(tmpl[n]) : n \in ActiveNames} \ {NoNode}

\* the node-creation calls of call c: what was created, for which template, tier, tag,
\* subject and rows
Signature(c) ==
    LET l == SelectSeq(log, LAMBDA e : e.call = c)
    IN [k \in 1..Len(l) |-> [fn |-> l[k].fn, param |-> l[k].param, tier |-> l[k].tier,
                             name |-> l[k].name, tag |-> l[k].tag, idx |-> l[k].idx,
                             data |-> l[k].data, created |-> l[k].ret # NoNode]]

\* C6: a second create_nodes call on the same templates and data builds the same tags,
\* tiers and wiring, and every node of the second graph was created by the second call
\* (share_var included).
C6_Reconstruction ==
    (Done /\ ncalls = 2) =>
        /\ Signature(2) = Signature(1)
        /\ \A n \in GraphNodes : heap[n].call = 2

\* C7: within one create_nodes call no get_bottom_node call is made before every active
\* non-bottom parameter has had its nodes created, and no group, dispersion or subject
\* node is created after a bottom node.
C7_BottomAfterNonBottom ==
    \A k \in 1..Len(log) : log[k].fn = "get_bottom_node" =>
        /\ \A p \in NonBottom : \E j \in 1..(k - 1) :
              log[j].call = log[k].call /\ log[j].param = p.name /\ log[j].tier = "group"
        /\ \A j \in (k + 1)..Len(log) :
              log[j].call = log[k].call => log[j].fn = "get_bottom_node"

\* C7 witness: a call that returned, in which the bottom template "x" is listed before
\* the non-bottom template "b", "a" got subject nodes and "x" got bottom nodes.
C7_Witness ==
    /\ Done /\ params[2].is_bottom_node /\ ~params[3].is_bottom_node
    /\ \E k \in LastCall("get_bottom_node") : log[k].param = "x"
    /\ \E k \in LastCall("create_pymc_node") : log[k].param = "b" /\ log[k].ret # NoNode
    /\ \E k \in LastCall("create_pymc_node") : log[k].param = "a" /\ log[k].tier = "subj"

\* the tags of the group nodes of template p are as C8 says
GroupTagsAsClaimed(p) ==
    IF p.name \in DOMAIN depends_on
    THEN OD_len(tmpl[p.name].group_nodes) =
             Cardinality({Project(data[r], depends_on[p.name]) : r \in AllRows})
    ELSE tmpl[p.name].group_nodes.keys = <<"">>

\* C8 as stated: after create_nodes every active parameter with a dependency entry has as
\* many group_nodes entries as its column(s) have unique value combinations in the
\* table, and every active parameter without one has exactly the tag ''.
C8_AllParameters == Done => \A p \in Range(params_include) : GroupTagsAsClaimed(p)

\* C8 amended: the same, for every active non-bottom parameter.
C8_NonBottomParameters == Done => \A p \in NonBottom : GroupTagsAsClaimed(p)

\* C8 witness: "a" depends on two columns with three combinations present and has three
\* group nodes; "b" has no dependency and the single tag ''.
C8_Witness ==
    /\ Done /\ "a" \in DOMAIN depends_on /\ "b" \notin DOMAIN depends_on
    /\ Len(np_unique(AllRows, depends_on["a"])) = 3
    /\ OD_len(tmpl["a"].group_nodes) = 3
    /\ tmpl["b"].group_nodes.keys = <<"">>

\* the rows of the slice that (template, tag) stands for
TagRows(p, t) ==
    IF p.is_bottom_node
    THEN UNION {data_dep[j].data : j \in {i \in 1..Len(data_dep) : data_dep[i].dep_name_str = t}}
    ELSE IF p.name \in DOMAIN depends_on
         THEN {r \in AllRows : StrRecord(Project(data[r], depends_on[p.name])) = t}
         ELSE AllRows

\* C9: in a grouped model a subject without rows in the slice of a (parameter, tag) has
\* no node there: the slot subj_nodes[tag][i] stays unset, for non-bottom parameters as
\* for bottom ones.
C9_NoNodeWithoutRows ==
    (Done /\ is_group_model) =>
        \A p \in Range(params_include) : has_subj_nodes(p) =>
            \A t \in Tags(tmpl[p.name].subj_nodes) : \A i \in 1.._num_subjs :
                SubjRows(TagRows(p, t), _subjs[i]) = {} =>
                    tmpl[p.name].subj_nodes.vals[t][i] = NoNode

\* every knode of the templates can be instantiated by create_pymc_node
Instantiable ==
    \A k \in 1..Len(params) : \A kn \in {params[k].group_knode, params[k].var_knode, params[k].subj_knode} :
        kn.kind # "None" => kn.has_parents

\* C10: with two subjects that both have rows in both levels of column c1 and the bottom
\* parameter depending on c1, create_nodes (given knodes it can instantiate) returns and
\* the bottom parameter has two tags with both subjects' nodes, four in all.
C10_BottomDependsOn ==
    ( /\ ncalls >= 1 /\ is_group_model /\ _num_subjs = 2 /\ Instantiable
      /\ DOMAIN depends_on = {"x"} /\ depends_on["x"] = <<"c1">>
      /\ \A s \in Subjects, v \in Levels :
            \E r \in AllRows : data[r].subj_idx = s /\ data[r].c1 = v )
    => /\ Done
       /\ OD_len(tmpl["x"].subj_nodes) = 2
       /\ \A t \in Tags(tmpl["x"].subj_nodes) : \A i \in 1..2 :
             tmpl["x"].subj_nodes.vals[t][i] # NoNode

\* the optional templates that include does not name
Excluded == {p \in Range(params) : p.optional /\ p.name \notin include}

\* the bottom nodes built so far
BottomHeap == {n \in 1..Len(heap) : heap[n].kind = "bottom"}

\* the keys that the dictionaries of the templates in names give to self.nodes
KeysOf(names) ==
    UNION {{n \o t \o "_group" : t \in Tags(tmpl[n].group_nodes)}
           \cup {n \o t \o "_subj" : t \in Tags(tmpl[n].subj_nodes)}
           \cup {n \o t \o "_var" : t \in Tags(tmpl[n].var_nodes)} : n \in names}

\* C11: for an optional parameter that include does not name, create_nodes makes no
\* node-creation call, leaves its three dictionaries empty, gives it no key of
\* self.nodes, and get_node on the bindings of any bottom node returns its default.
C11_OptionalExcluded ==
    Done => \A p \in Excluded :
        /\ \A k \in 1..Len(log) : log[k].param # p.name
        /\ tmpl[p.name].group_nodes = OD_empty
        /\ tmpl[p.name].var_nodes = OD_empty
        /\ tmpl[p.name].subj_nodes = OD_empty
        /\ DOMAIN registry.nodes = KeysOf({q.name : q \in Range(params)} \ {p.name})
        /\ \A n \in BottomHeap :
              get_node(p.name, heap[n].parents) = [err |-> "", ret |-> p.default]

\* C11 witness: create_nodes returned on a model whose optional template "b" is left
\* out, with bottom nodes built and nodes registered.
C11_Witness ==
    /\ Done /\ Excluded # {} /\ BottomHeap # {}
    /\ DOMAIN registry.nodes # {}
    /\ \A n \in BottomHeap : get_node("b", heap[n].parents).ret = Some("default")

\* C12: on the bindings handed to a bottom node, get_node returns the bound node for
\* every template of params_include and the default for every other template.
C12_IncludedGetNode ==
    Done => \A n \in BottomHeap : \A p \in Range(params) :
        IF p.name \in ActiveNames
        THEN /\ p.name \in DOMAIN heap[n].parents
             /\ get_node(p.name, heap[n].parents) =
                    [err |-> "", ret |-> Some(heap[n].parents[p.name])]
        ELSE get_node(p.name, heap[n].parents) = [err |-> "", ret |-> p.default]

\* C13: on a model (with knodes that can be instantiated) whose depends_on has a key
\* that names no active template, no node is ever created and create_nodes never
\* returns.
C13_UnknownDependsOnKey ==
    (Instantiable /\ \E k \in DOMAIN depends_on : k \notin ActiveNames) =>
        (heap = << >> /\ status # "done")

\* the names of the templates of self.params
ParamNames == {params[i].name : i \in 1..Len(params)}

\* the entries of the argument update_params
UpdateEntries ==
    IF ctor_args.update_params = None THEN {} ELSE Range(ctor_args.update_params[1])

\* update_params names an existing template and, for it, a field that no template has
InvalidUpdateKey ==
    \E e \in UpdateEntries :
        /\ e.name \in ParamNames
        /\ \E k \in 1..Len(e.items) : e.items[k][1] \notin HNodeAttrs

\* C14: when update_params names a field that does not exist on the targeted template,
\* the constructor ends with an exception, no create_nodes call is made and no node
\* exists; the exception is the invalid-key ValueError of _change_default_params
\* unless another configuration error of the constructor comes first.
C14_InvalidUpdateKey ==
    (status # "args" /\ InvalidUpdateKey) =>
        /\ status = "error" /\ ncalls = 0 /\ heap = << >> /\ log = << >>
        /\ (~MissingColumn /\ \A e \in UpdateEntries : e.name \in ParamNames)
              => error = "ValueError: invalid key"

\* C14 witness: the constructor raised the invalid-key error for template "a" after
\* it had already set the valid field that precedes the invalid one.
C14_Witness ==
    /\ status = "error" /\ error = "ValueError: invalid key"
    /\ InvalidUpdateKey
    /\ ctor_args.replace_params = None
    /\ params[1].share_var
    /\ \E e \in UpdateEntries : e.items[1][1] = "share_var" /\ Len(e.items) = 2

\* C15: when replace_params or update_params names a parameter that is not in the
\* template list, the constructor ends with an exception.
C15_UnknownOverrideName ==
    ( /\ status # "args"
      /\ \/ \E h \in Range(ReplaceList(ctor_args.replace_params)) : h.name \notin ParamNames
         \/ \E e \in UpdateEntries : e.name \notin ParamNames )
    => status = "error"

(***************************************************************************)
(* Properties of the slice sampler.                                        *)
(***************************************************************************)
StepReturned == sampler.status = "returned"
StepFailed == sampler.status = "failed"
StepRunning == sampler.status = "running"

\* C16: whenever step() has returned normally, the node's value is the last
\* drawn point xp, it lies in the final interval (xl <= xp < xr), and its
\* log-density is at least the threshold z drawn at the start of the step.
C16_AcceptedPoint ==
    StepReturned =>
        /\ sampler.stoch = sampler.xp
        /\ sampler.xl <= sampler.xp /\ sampler.xp < sampler.xr
        /\ logp_plus_loglike(sampler) >= sampler.z

\* a step that returned after at least one shrink and moved the node
C16_Witness ==
    StepReturned /\ sampler.iter >= 1 /\ sampler.stoch # sampler.value

\* a sub-procedure has used all maxiter iterations without ending its search
Exhausted(s) ==
    /\ s.status = "running" /\ s.iter = s.maxiter
    /\ s.pc \in {"left", "right"} => logp_plus_loglike(s) > s.z
    /\ s.pc = "shrink" => logp_plus_loglike(s) < s.z

\* C17: when an end of the interval still has L > z after maxiter expansions
\* (left or right), or the first draw and all maxiter redraws have L < z,
\* the step raises the stepping failure; it does not go on or return.
C17_ExhaustedRaises ==
    [][Exhausted(sampler) => sampler'.status = "failed" /\ sampler'.error # ""]_vars

\* with maxiter = 1 the left step-out has failed after one expansion that did
\* not leave the slice
C17_Witness ==
    /\ StepFailed /\ sampler.pc = "left" /\ sampler.maxiter = 1 /\ sampler.iter = 1
    /\ logp_plus_loglike(sampler) > sampler.z

\* C18: with hard bounds around the starting value (here the support 0..MaxPos
\* of the log-density) the node's value is never set to a point outside the
\* bounds while a step runs.
C18_ValueWithinBounds ==
    (StepRunning /\ sampler.value \in Positions) => sampler.stoch \in Positions

\* C19: a sub-procedure fails only when its search has not ended within
\* maxiter iterations: a failed step-out has L > z at the last end point,
\* a failed shrink-in has L < z at the last drawn point.
C19_FailsOnlyWhenExceeded ==
    StepFailed =>
        /\ sampler.pc \in {"left", "right"} => logp_plus_loglike(sampler) > sampler.z
        /\ sampler.pc = "shrink" => logp_plus_loglike(sampler) < sampler.z

\* C20: after a successful step neval has grown by the number of assignments
\* to stoch.value made by the step, the first probe of each sub-procedure
\* included.
C20_NevalCountsAssignments ==
    StepReturned => sampler.neval - sampler.neval0 = sampler.nassign

(***************************************************************************)
(* Properties of the graph compiler, continued.                            *)
(***************************************************************************)
\* the tags of the partitions returned by the last _get_data_depend call
PartitionTags == {data_dep[k].dep_name_str : k \in 1..Len(data_dep)}

\* the history entries of call c that are get_bottom_node calls
BottomCallsOf(c) == {k \in 1..Len(log) : log[k].fn = "get_bottom_node" /\ log[k].call = c}

\* slot is the placeholder of a bottom template, filled or not
IsSlot(slot) ==
    IF is_group_model THEN DOMAIN slot = 1.._num_subjs ELSE slot \in 0..Len(heap)

\* C21: at every get_bottom_node call each active bottom parameter has a slot
\* under every partition tag (one entry per subject in a grouped model, one
\* entry otherwise), and at the first get_bottom_node call of a create_nodes
\* call all these slots are still unset.
C21_PlaceholdersFirst ==
    \A c \in 1..ncalls : \A k \in BottomCallsOf(c) : \A p \in Bottom : \A t \in PartitionTags :
        /\ OD_has(log[k].slots[p.name], t)
        /\ IsSlot(log[k].slots[p.name].vals[t])
        /\ (\A j \in BottomCallsOf(c) : k <= j) =>
               log[k].slots[p.name].vals[t] = Placeholder(p)

\* a model with two bottom parameters and two partitions, both populated
C21_Witness ==
    /\ Done /\ Cardinality(Bottom) = 2 /\ Cardinality(PartitionTags) = 2
    /\ \A p \in Bottom : \E k \in BottomCallsOf(1) : log[k].param = p.name

\* the history entries of call c that created a dispersion node of template name
VarCalls(name, c) ==
    {k \in 1..Len(log) : log[k].tier = "var" /\ log[k].param = name /\ log[k].call = c}

\* the active non-bottom templates with a subject tier that have at least one tag
Tagged == {p \in NonBottom : has_subj_nodes(p) /\ Tags(tmpl[p.name].group_nodes) # {}}

\* C22: after the first create_nodes call on a grouped model, a parameter with
\* share_var has one dispersion node, created by the only dispersion call made
\* for it, under every tag; a parameter without share_var has one dispersion
\* call per tag and different nodes under different tags.
C22_SharedDispersion ==
    (Done /\ ncalls = 1 /\ is_group_model) =>
        \A p \in Tagged :
            /\ Tags(tmpl[p.name].var_nodes) = Tags(tmpl[p.name].group_nodes)
            /\ p.share_var =>
                   /\ Cardinality(VarCalls(p.name, 1)) = 1
                   /\ \A t \in Tags(tmpl[p.name].var_nodes), k \in VarCalls(p.name, 1) :
                          /\ tmpl[p.name].var_nodes.vals[t] = log[k].ret
                          /\ \A j \in 1..Len(log) :
                                 (log[j].param = p.name /\ log[j].tier # "group") => k <= j
            /\ ~p.share_var =>
                   /\ Cardinality(VarCalls(p.name, 1)) = Cardinality(Tags(tmpl[p.name].var_nodes))
                   /\ \A t1, t2 \in Tags(tmpl[p.name].var_nodes) :
                          t1 # t2 => tmpl[p.name].var_nodes.vals[t1] # tmpl[p.name].var_nodes.vals[t2]

\* a grouped model whose parameter with share_var has two tags
C22_Witness ==
    /\ Done /\ ncalls = 1 /\ is_group_model
    /\ \E p \in Tagged : p.share_var /\ Cardinality(Tags(tmpl[p.name].var_nodes)) = 2

\* the string of a tag path: '' / str(dep_name[0]) / str(dep_name)
TagOf(path) ==
    IF path = << >> THEN ""
    ELSE IF Len(path) = 1 THEN StrRecord(path[1]) ELSE StrList(path)

\* C23: every tuple of the partitioner has a tag path with one value per
\* dependency entry, each the value that all rows of the tuple's own slice
\* carry in that entry's columns, and its tag is the string of that path
\* ('' for no entry, the string of the value for one entry, the string of
\* the list otherwise).
C23_TagPath ==
    \A k \in 1..Len(data_dep) :
        /\ Len(data_dep[k].dep_name) = Len(dep_keys)
        /\ \A j \in 1..Len(dep_keys) : \A r \in data_dep[k].data :
               Project(data[r], depends_on[dep_keys[j]]) = data_dep[k].dep_name[j]
        /\ data_dep[k].dep_name_str = TagOf(data_dep[k].dep_name)

\* two dependency entries and at least three partitions (sibling branches at both levels)
C23_Witness ==
    Done /\ Len(dep_keys) = 2 /\ Len(data_dep) >= 3

\* the history entries of call c that created a node of the given tier for template name
TierCalls(name, tier, c) ==
    {k \in 1..Len(log) : log[k].tier = tier /\ log[k].param = name /\ log[k].call = c}

\* the active non-bottom templates without a dependency entry
Independent == {p \in NonBottom : p.name \notin DOMAIN depends_on}

\* C24: in every create_nodes call that returns, a parameter without dependency
\* entry gets exactly one group node, under tag ''; in a grouped model a
\* parameter with a subject tier also gets exactly one dispersion node and one
\* subject node per subject under tag '', otherwise it gets neither.
C24_IndependentNodes ==
    Done =>
        \A p \in Independent : \A c \in 1..ncalls :
            /\ Cardinality(TierCalls(p.name, "group", c)) = 1
            /\ Tags(tmpl[p.name].group_nodes) = {""}
            /\ IF is_group_model /\ has_subj_nodes(p)
               THEN /\ Cardinality(TierCalls(p.name, "var", c)) = 1
                    /\ Cardinality(TierCalls(p.name, "subj", c)) = _num_subjs
                    /\ Tags(tmpl[p.name].var_nodes) = {""}
                    /\ Tags(tmpl[p.name].subj_nodes) = {""}
               ELSE /\ TierCalls(p.name, "var", c) = {}
                    /\ TierCalls(p.name, "subj", c) = {}
                    /\ Tags(tmpl[p.name].var_nodes) = {}
                    /\ Tags(tmpl[p.name].subj_nodes) = {}

\* every key of depends_on names an active non-bottom template
KeysNonBottom == \A k \in DOMAIN depends_on : \E p \in NonBottom : p.name = k

\* C25: when every key of depends_on is an active non-bottom parameter,
\* create_nodes does not end with a KeyError (no tag the partitioner looks up
\* is missing), and for a non-empty table every partition it has returned
\* has at least one row.
C25_NoMissingTag ==
    KeysNonBottom =>
        /\ error # "KeyError"
        /\ data # << >> => \A k \in 1..Len(data_dep) : data_dep[k].data # {}

\* a grouped model with two dependency entries whose partitioner has looked up
\* subject-tier and group-tier tags
C25_Witness ==
    /\ Done /\ KeysNonBottom /\ is_group_model /\ Len(dep_keys) = 2 /\ Len(data_dep) >= 3
    /\ \E p \in NonBottom : has_subj_nodes(p)

\* the history entries of the latest create_nodes call
LastEntries == {k \in 1..Len(log) : log[k].call = ncalls}

\* the node created by history entry k is stored under tag t of its tier's dictionary
StoredAt(k, t) ==
    CASE log[k].tier = "group" ->
             /\ OD_has(tmpl[log[k].param].group_nodes, t)
             /\ tmpl[log[k].param].group_nodes.vals[t] = log[k].ret
      [] log[k].tier = "var" ->
             /\ OD_has(tmpl[log[k].param].var_nodes, t)
             /\ tmpl[log[k].param].var_nodes.vals[t] = log[k].ret
      [] OTHER ->
             /\ OD_has(tmpl[log[k].param].subj_nodes, t)
             /\ IF log[k].tier = "bottom" /\ ~is_group_model
                THEN tmpl[log[k].param].subj_nodes.vals[t] = log[k].ret
                ELSE /\ log[k].idx # None
                     /\ tmpl[log[k].param].subj_nodes.vals[t][log[k].idx[1] + 1] = log[k].ret

\* the data slice of the node of entry k, stored under tag t
NodeRows(k, t) ==
    IF log[k].idx # None
    THEN SubjRows(TagRows(ParamByName(log[k].param), t), _subjs[log[k].idx[1] + 1])
    ELSE TagRows(ParamByName(log[k].param), t)

\* whether the node of entry k belongs to one subject
PerSubject(k) == log[k].tier = "subj" \/ (log[k].tier = "bottom" /\ is_group_model)

\* every working field of every active template is None
AllReset ==
    \A p \in Range(params_include) :
        /\ tmpl[p.name].tag = None /\ tmpl[p.name].data = None
        /\ tmpl[p.name].idx = None /\ tmpl[p.name].group = None

\* C26 as stated: at each node-creation call the fields tag, data and idx of the
\* template are the tag, the data slice and the subject index of the node being
\* created, and when create_nodes has returned tag, data, idx and group of
\* every active template are None.
C26_WorkingFields ==
    Done =>
        /\ AllReset
        /\ \A k \in LastEntries :
               /\ log[k].tag # None /\ StoredAt(k, log[k].tag[1])
               /\ log[k].data = Some(NodeRows(k, log[k].tag[1]))
               /\ PerSubject(k) <=> log[k].idx # None

\* C26 amended: tag is set at every call, to the node's tag except for a
\* dispersion node, where it is 'var' + tag ('var' with share_var); data is the
\* node's slice except for the group node of a parameter without dependency
\* entry, where it is None; idx is the subject index for subject and grouped
\* bottom nodes and None otherwise; after a normal return all are None.
C26_WorkingFieldsAsSet ==
    Done =>
        /\ AllReset
        /\ \A k \in LastEntries : \E t \in Tags(tmpl[log[k].param].group_nodes)
                                          \cup Tags(tmpl[log[k].param].subj_nodes) :
               /\ StoredAt(k, t)
               /\ log[k].tag = Some(IF log[k].tier = "var"
                                    THEN VarTag(ParamByName(log[k].param), t) ELSE t)
               /\ log[k].data = IF log[k].tier = "group"
                                   /\ log[k].param \notin DOMAIN depends_on
                                THEN None ELSE Some(NodeRows(k, t))
               /\ PerSubject(k) <=> log[k].idx # None

\* a grouped model after a call that made dispersion, subject and bottom nodes
\* and the group node of a parameter without dependency entry
C26_Witness ==
    /\ Done /\ is_group_model /\ Len(data_dep) >= 2
    /\ \E k \in LastEntries : log[k].tier = "var"
    /\ \E k \in LastEntries : log[k].tier = "subj"
    /\ \E k \in LastEntries : log[k].tier = "bottom"
    /\ \E k \in LastEntries : log[k].tier = "group" /\ log[k].param \notin DOMAIN depends_on

\* C30: the names that full_name gives to the nodes created in one
\* create_nodes call are pairwise distinct.
C30_DistinctNames ==
    \A j, k \in 1..Len(log) :
        (j # k /\ log[j].call = log[k].call) => log[j].name # log[k].name

(***************************************************************************)
(* Properties of the slice sampler, continued.                             *)
(***************************************************************************)
\* the point last assigned to the node by the sub-procedure s.pc
LastPoint(s) ==
    CASE s.pc = "left" -> s.xl
      [] s.pc = "right" -> s.xr
      [] OTHER -> s.xp

\* C27: when step() raises, the node keeps the last point assigned by the
\* failing sub-procedure (xl, xr or xp): raising does not assign the node, in
\* particular not the value it had before the step, and neval is not increased
\* for the failing sub-procedure.
C27_NoRollback ==
    [][(sampler.status = "running" /\ sampler'.status = "failed") =>
           /\ sampler'.stoch = sampler.stoch
           /\ sampler'.stoch = LastPoint(sampler')
           /\ sampler'.value = sampler.value
           /\ sampler'.neval = sampler.neval]_vars

\* a step failed in its shrink-in after the step-outs had counted iterations, and
\* the node is left at a point that is not its value before the step
C27_Witness ==
    /\ StepFailed /\ sampler.pc = "shrink" /\ sampler.neval > sampler.neval0
    /\ sampler.stoch # sampler.value

\* C28: at every point of step() xl <= x0 <= xr; the first interval has
\* xl <= x0 < xr and xr - xl = width; step-out moves xl down and xr up by
\* multiples of width; a shrink-in iteration replaces one end with the rejected
\* point (xr if it is right of x0, else xl) and does not widen the interval.
C28_IntervalContainsStart ==
    [][/\ sampler'.status # "idle" =>
              sampler'.xl <= sampler'.value /\ sampler'.value <= sampler'.xr
       /\ (sampler.status # "running" /\ sampler'.status = "running") =>
              /\ sampler'.xl <= sampler'.value /\ sampler'.value < sampler'.xr
              /\ sampler'.xr - sampler'.xl = sampler'.width
       /\ (sampler.status = "running" /\ sampler.pc \in {"left", "right"}) =>
              /\ sampler'.xl <= sampler.xl /\ (sampler.xl - sampler'.xl) % sampler.width = 0
              /\ sampler'.xr >= sampler.xr /\ (sampler'.xr - sampler.xr) % sampler.width = 0
       /\ (sampler.status = "running" /\ sampler.pc = "shrink"
           /\ sampler'.iter = sampler.iter + 1) =>
              /\ IF sampler.xp > sampler.value
                 THEN sampler'.xr = sampler.xp /\ sampler'.xl = sampler.xl
                 ELSE sampler'.xl = sampler.xp /\ sampler'.xr = sampler.xr
              /\ sampler'.xr - sampler'.xl <= sampler.xr - sampler.xl]_vars

\* a shrink-in after a step-out, two shrink iterations done: an end has been replaced
\* by a rejected point (the interval is no longer a multiple of width long)
C28_Witness ==
    /\ sampler.status = "running" /\ sampler.pc = "shrink" /\ sampler.iter >= 2
    /\ sampler.neval > sampler.neval0
    /\ (sampler.xr - sampler.xl) % sampler.width # 0

\* the order of the sub-procedures of one call
PcOrder ==
    {<<"left", "left">>, <<"left", "right">>, <<"right", "right">>,
     <<"right", "shrink">>, <<"shrink", "shrink">>}

\* C29: every call of step() ends, by returning or by raising; no loop runs more
\* than maxiter iterations; the sub-procedures run in the order left, right,
\* shrink, and after a failure nothing runs but a new call.
C29_StepTerminates ==
    /\ StepRunning ~> (StepReturned \/ StepFailed)
    /\ [](sampler.iter <= sampler.maxiter)
    /\ [][/\ (sampler.status = "running" /\ sampler'.status = "running") =>
                 <<sampler.pc, sampler'.pc>> \in PcOrder
          /\ (sampler.status = "running" /\ sampler'.status = "returned") =>
                 sampler.pc = "shrink"
          /\ sampler.status = "failed" =>
                 sampler'.pc = "left" /\ sampler'.nsteps = sampler.nsteps + 1]_vars

\* a call that used maxiter - 1 iterations in each loop and returned
C29_Witness ==
    /\ StepReturned /\ sampler.maxiter = MaxIter /\ sampler.iter = MaxIter - 1
    /\ sampler.neval - sampler.neval0 = 3 * (MaxIter - 1)

====
